---- MODULE Spec2Model ----
(***************************************************************************)
(* The library state synchronizer of Modkeeper: the jotai store            *)
(* (store/library.ts), the action layer built by withAsyncState            *)
(* (store/library-actions.ts), the Result unwrapper ur (utils/result.ts)   *)
(* and the error translator translateError (lib/error.ts).                 *)
(*                                                                         *)
(* The backend is outside the repository: every command answers once,     *)
(* with an Ok or an Err envelope chosen nondeterministically, and answers  *)
(* of calls that are in flight together are delivered in any order.        *)
(***************************************************************************)
EXTENDS Integers, Sequences, FiniteSets, TLC

VARIABLES
    libraryAtom,          \* atom<LibraryDTO | null>
    librarySwitchAtom,    \* atom<LibrarySwitch | null>
    libraryLoadingAtom,   \* atom<boolean>
    libraryErrorAtom,     \* atom<Error | null>
    inflight,             \* the action calls awaiting their backend answer, in issue order
    settled,              \* the call that settled in the last step (Null after any other step)
    ALibrarySwitch,       \* atom<LibrarySwitch>() of the hook-based store
    pending,              \* the createSetter calls awaiting their backend answer, in issue order
    wrote,                \* the createSetter call that settled in the last step (Null otherwise)
    unwrapping,           \* the running call of ur: its arguments, its position, its outcome
    translated,           \* the calls of translateError made so far, each with its return value
    card,                 \* the mounted ModCard: optimisticActive and the mod.is_active it rendered
    fired,                \* for each pending createSetter call, whether the card's handleToggle made it
    failedToggle,         \* a toggle of the card failed and the active library was not written since
    invocations,          \* the action atoms invoked so far
    commands,             \* the backend commands sent so far
    running,              \* the continuation of withAsyncState that runs: its position and what it holds
    requested,            \* for each call in flight, the is_active the card asked for (Null: not the card's call)
    honoured,             \* the toggles of the card answered with the is_active they asked for (2: two or more), -1 once one was not
    backend,              \* the backend's active library: is_active of each of its mods
    sent,                 \* for each call in flight, the command sent and the backend's response once it handled it
    batch,                \* the last batch toggle of the mod list: the selected mods and the requested is_active
    listeners,            \* the drag-drop listeners of FileDropHandler not yet removed: the library each captured, how far its registration is
    dropped,              \* the last file drop: whether the store had an active library, and the add calls it led to
    mockDataStore,        \* MockDataStore.librarySwitch (Null before initialize)
    timers,               \* for each call in flight, the mock operation waiting for its setTimeout and its arguments
    mockRan,              \* the mock operation that ran in the last step, with the active library it found
    retrying              \* the call of retry: its options, its locals, its position, what fn did and the delays awaited

vars == <<libraryAtom, librarySwitchAtom, libraryLoadingAtom, libraryErrorAtom,
          inflight, settled>>

hookVars == <<ALibrarySwitch, pending, wrote>>

utilVars == <<unwrapping, translated>>

cardVars == <<card, fired, failedToggle>>

stepVars == <<invocations, commands, running>>

pageVars == <<requested, honoured>>

batchVars == <<backend, sent, batch>>

dropVars == <<listeners, dropped>>

mockVars == <<mockDataStore, timers, mockRan>>

retryVars == <<retrying>>

allVars == <<vars, hookVars, utilVars, cardVars, stepVars, pageVars, batchVars,
             dropVars, mockVars, retryVars>>

----------------------------------------------------------------------------
(* Bounds and value universes *)

\* action calls that may be in flight at the same time
MaxCalls == 2

\* JavaScript null / undefined
Null == [null |-> TRUE]

LibIds == {"lib-a", "lib-b"}
ModIds == {"mod-1"}

\* LibraryDTO, projected on its id and on the is_active flag of each mod
LibraryDTO == [id : LibIds, mods : [ModIds -> BOOLEAN]]

Range(s) == {s[k] : k \in DOMAIN s}

\* the known-libraries lists a backend answers with: no id twice
LibraryLists ==
    {s \in UNION {[1..n -> LibraryDTO] : n \in 0..Cardinality(LibIds)} :
        \A a, b \in DOMAIN s : a # b => s[a].id # s[b].id}

\* LibrarySwitch values a backend answers with: the active library, when there
\* is one, is one of the known libraries
LibrarySwitch ==
    {[active |-> a, libraries |-> s] : s \in LibraryLists, a \in LibraryDTO \cup {Null}}

BackendSwitches ==
    {sw \in LibrarySwitch : sw.active = Null \/ sw.active \in Range(sw.libraries)}

----------------------------------------------------------------------------
(* SError and the error translator *)

StrErr(s) == [type |-> "string", value |-> s, keys |-> {}]
ObjErr(k) == [type |-> "object", value |-> "", keys |-> {k}]

BareVariants ==
    {"GameOrServerRunning", "ProcessRunning", "UnableToDetermineModId", "Link",
     "ContextUnprovided", "NoActiveLibrary", "Unexpected"}

StructuredVariants ==
    {"UnsupportedSPTVersion", "ParseError", "IOError", "FileOrDirectoryNotFound",
     "FileCollision", "UnhandledCompression", "AsyncRuntimeError", "UpdateStatusError"}

\* the defined variants, and one variant of each shape the translator does not know
SError ==
    {StrErr(s) : s \in BareVariants \cup {"FutureBareVariant"}}
        \cup {ObjErr(k) : k \in StructuredVariants \cup {"FutureStructuredVariant"}}

\* t(msg`...`) of lingui: the message in the source locale
t(message) == message

\* the switch of translateError with its default falling through to the cases
\* that follow it
translateBare_DefaultFallsThrough(value) ==
    CASE value = "GameOrServerRunning" ->
            t("The game or server is currently running. Please close it before performing this operation.")
      [] value = "ProcessRunning" ->
            t("Mod related process is currently running. Please close it and try again.")
      [] value = "UnableToDetermineModId" ->
            t("Unable to determine the mod ID. Please check the mod files and try again.")
      [] value = "Link" ->
            t("Error happended while linking files to the game direcory. Please try again.")
      [] OTHER ->
            t("An unexpected error occurred. Please try again.")

\* switch (error) of translateError: the default clause stands before the last
\* three cases and returns on its own
translateBare(value) ==
    CASE value = "GameOrServerRunning" ->
            t("The game or server is currently running. Please close it before performing this operation.")
      [] value = "ProcessRunning" ->
            t("Mod related process is currently running. Please close it and try again.")
      [] value = "UnableToDetermineModId" ->
            t("Unable to determine the mod ID. Please check the mod files and try again.")
      [] value = "Link" ->
            t("Error happended while linking files to the game direcory. Please try again.")
      [] value \in {"ContextUnprovided", "NoActiveLibrary", "Unexpected"} ->
            t("An unexpected error occurred. Please try again.")
      [] OTHER ->
            t("An error occurred. Please try again.")

\* the key tests of translateError without the test of AsyncRuntimeError
translateStructured_MissesVariant(keys) ==
    IF "UnsupportedSPTVersion" \in keys THEN
        t("Unsupported SPT version. Please check the supported version of this Mod Manager. If you think this is an error, please report the issue to the developer.")
    ELSE IF "ParseError" \in keys THEN
        t("A parsing error occurred. The file may be corrupted or in an invalid format.")
    ELSE IF "IOError" \in keys THEN
        t("A file system error occurred. Please check your file permissions or if something is opened and try again.")
    ELSE IF "FileOrDirectoryNotFound" \in keys THEN
        t("The requested file or directory was not found. Please check the path and try again.")
    ELSE IF "FileCollision" \in keys THEN
        t("File conflicts detected. Some mods may have conflicting files.")
    ELSE IF "UnhandledCompression" \in keys THEN
        t("The archive format is not supported. Please extract them to a folder manually.")
    ELSE IF "UpdateStatusError" \in keys THEN
        t("Failed to update task status. Please try again.")
    ELSE t("An unknown error occurred. Please try again.")

\* the key tests of translateError, in their order
translateStructured(keys) ==
    IF "UnsupportedSPTVersion" \in keys THEN
        t("Unsupported SPT version. Please check the supported version of this Mod Manager. If you think this is an error, please report the issue to the developer.")
    ELSE IF "ParseError" \in keys THEN
        t("A parsing error occurred. The file may be corrupted or in an invalid format.")
    ELSE IF "IOError" \in keys THEN
        t("A file system error occurred. Please check your file permissions or if something is opened and try again.")
    ELSE IF "FileOrDirectoryNotFound" \in keys THEN
        t("The requested file or directory was not found. Please check the path and try again.")
    ELSE IF "FileCollision" \in keys THEN
        t("File conflicts detected. Some mods may have conflicting files.")
    ELSE IF "UnhandledCompression" \in keys THEN
        t("The archive format is not supported. Please extract them to a folder manually.")
    ELSE IF "AsyncRuntimeError" \in keys THEN
        t("An internal error occurred. Please try again.")
    ELSE IF "UpdateStatusError" \in keys THEN
        t("Failed to update task status. Please try again.")
    ELSE t("An unknown error occurred. Please try again.")

translateError(error) ==
    IF error.type = "string"
    THEN translateBare(error.value)
    ELSE translateStructured(error.keys)

\* new Error(message)
Error(message) == [message |-> message]

----------------------------------------------------------------------------
(* Result envelopes and the unwrapper *)

Ok(data) == [status |-> "ok", data |-> data, error |-> Null]
Err(error) == [status |-> "error", data |-> Null, error |-> error]

\* the SError values the backend answers with in the checked runs
BackendErrors == {StrErr("GameOrServerRunning"), ObjErr("IOError")}

\* ur handing the error out as its return value instead of throwing
ur_ReturnsError(result) ==
    IF result.status = "error"
    THEN [threw |-> FALSE, value |-> result.error]
    ELSE [threw |-> FALSE, value |-> result.data]

\* ur returning the Ok envelope instead of its data
ur_ReturnsEnvelope(result) ==
    IF result.status = "error"
    THEN [threw |-> TRUE, value |-> Error(translateError(result.error))]
    ELSE [threw |-> FALSE, value |-> result]

\* ur(resultPromise) without a handler: the value returned, or the Error thrown
ur(result) ==
    IF result.status = "error"
    THEN [threw |-> TRUE, value |-> Error(translateError(result.error))]
    ELSE [threw |-> FALSE, value |-> result.data]

\* what a backend command settles with: an envelope, or a rejection of the
\* command's promise with a value that is no Error (the IPC call itself failing)
Thrown == [status |-> "thrown", data |-> Null, error |-> Null]

----------------------------------------------------------------------------
(* State-merge functions: each maps the store's library cells and the       *)
(* unwrapped result to the cells after the merge                            *)

Cells(lib, sw) == [libraryAtom |-> lib, librarySwitchAtom |-> sw]

\* switchData?.active is truthy
HasActive(switchData) == switchData # Null /\ switchData.active # Null

\* updateLibraryState with the switch rebuilt without the spread of switchData
updateLibraryState_DropsList(cells, library) ==
    IF HasActive(cells.librarySwitchAtom)
    THEN Cells(library, [active |-> library, libraries |-> <<>>])
    ELSE Cells(library, cells.librarySwitchAtom)

\* updateLibraryState writing a known list that holds the library alone
updateLibraryState_ListOfActive(cells, library) ==
    IF HasActive(cells.librarySwitchAtom)
    THEN Cells(library, [active |-> library, libraries |-> <<library>>])
    ELSE Cells(library, cells.librarySwitchAtom)

\* updateLibraryState without set(libraryAtom, library)
updateLibraryState_SwitchOnly(cells, library) ==
    IF HasActive(cells.librarySwitchAtom)
    THEN Cells(cells.libraryAtom, [cells.librarySwitchAtom EXCEPT !.active = library])
    ELSE cells

updateLibraryState(cells, library) ==
    IF HasActive(cells.librarySwitchAtom)
    THEN Cells(library, [cells.librarySwitchAtom EXCEPT !.active = library])
    ELSE Cells(library, cells.librarySwitchAtom)

\* updateLibrarySwitchState merging into the known list instead of replacing it
updateLibrarySwitchState_KeepsList(cells, switchData) ==
    IF cells.librarySwitchAtom = Null
    THEN Cells(switchData.active, switchData)
    ELSE Cells(switchData.active,
               [switchData EXCEPT !.libraries = cells.librarySwitchAtom.libraries])

updateLibrarySwitchState(cells, switchData) ==
    Cells(switchData.active, switchData)

\* the inline merge of fetchLibraryAction
setLibrary(cells, library) ==
    Cells(library, cells.librarySwitchAtom)

MergeNames == {"setLibrary", "updateLibrarySwitchState", "updateLibraryState"}

updateState(name, cells, result) ==
    CASE name = "setLibrary" -> setLibrary(cells, result)
      [] name = "updateLibrarySwitchState" -> updateLibrarySwitchState(cells, result)
      [] name = "updateLibraryState" -> updateLibraryState(cells, result)

\* the data of the Ok envelopes of the commands behind a merge function
OkData(name) ==
    IF name = "updateLibrarySwitchState" THEN BackendSwitches ELSE LibraryDTO

\* every answer a command behind the merge function `name` can settle with
Answers(name) ==
    {Ok(d) : d \in OkData(name)} \cup {Err(e) : e \in BackendErrors} \cup {Thrown}

----------------------------------------------------------------------------
(* withAsyncState *)

\* const result = await operation(...args), operation being ur(commands.x(...)):
\* the value it yields, or what it throws
operation(answer) ==
    IF answer.status = "thrown"
    THEN [threw |-> TRUE, value |-> Null]
    ELSE ur(answer)

\* the catch block wrapping whatever it caught
caught_AlwaysGeneric(err) == Error("Operation failed")

\* err instanceof Error ? err : new Error('Operation failed')
caught(err) ==
    IF err = Null THEN Error("Operation failed") ELSE err

\* the error cell cleared again when the call resolves
errorAfter_ClearsOnOk(op, before) ==
    IF op.threw THEN caught(op.value) ELSE Null

\* the error cell after the call settled
errorAfter(op, before) ==
    IF op.threw THEN caught(op.value) ELSE before

\* loading cleared only by the last call in flight
loadingAfter_LastCallOnly(before) == Len(inflight) > 1

\* finally { set(libraryLoadingAtom, false) }
loadingAfter(before) == FALSE

\* the catch block resetting the library cells, as the older hooks do
cellsAfter_ClearsOnFailure(name, cells, op) ==
    IF op.threw THEN Cells(Null, Null) ELSE updateState(name, cells, op.value)

\* the library cells after the call settled
cellsAfter(name, cells, op) ==
    IF op.threw THEN cells ELSE updateState(name, cells, op.value)

RemoveAt(s, k) == [j \in 1..(Len(s) - 1) |-> IF j < k THEN s[j] ELSE s[j + 1]]

\* the call that settled before this one, kept when both are mod-mutating calls
\* that resolved and no call was issued in between: its data, and whether it was
\* issued before this one
Previous(k, name, op) ==
    IF /\ settled # Null
       /\ settled.outcome = "resolved"
       /\ settled.updateState = "updateLibraryState"
       /\ name = "updateLibraryState"
       /\ ~op.threw
    THEN [data |-> settled.value, older |-> settled.pos <= k]
    ELSE Null

\* withAsyncState without set(libraryErrorAtom, null)
Invoke_KeepsError(name) ==
    /\ Len(inflight) < MaxCalls
    /\ libraryLoadingAtom' = TRUE
    /\ inflight' = Append(inflight, [updateState |-> name])
    /\ settled' = Null
    /\ UNCHANGED <<libraryAtom, librarySwitchAtom, libraryErrorAtom>>

\* the first half of the async function: up to the await
Invoke(name) ==
    /\ Len(inflight) < MaxCalls
    /\ libraryLoadingAtom' = TRUE
    /\ libraryErrorAtom' = Null
    /\ inflight' = Append(inflight, [updateState |-> name])
    /\ settled' = Null
    /\ UNCHANGED <<libraryAtom, librarySwitchAtom>>

\* the second half: the backend's answer arrives and try/catch/finally runs
Settle(k, answer) ==
    LET name == inflight[k].updateState
        op == operation(answer)
        cells == Cells(libraryAtom, librarySwitchAtom)
        after == cellsAfter(name, cells, op)
        err == errorAfter(op, libraryErrorAtom)
    IN  /\ libraryAtom' = after.libraryAtom
        /\ librarySwitchAtom' = after.librarySwitchAtom
        /\ libraryErrorAtom' = err
        /\ libraryLoadingAtom' = loadingAfter(libraryLoadingAtom)
        /\ inflight' = RemoveAt(inflight, k)
        /\ settled' = [pos |-> k,
                       updateState |-> name,
                       answer |-> answer,
                       outcome |-> IF op.threw THEN "rejected" ELSE "resolved",
                       value |-> IF op.threw THEN err ELSE op.value,
                       previous |-> Previous(k, name, op),
                       failed |-> op.threw \/ (settled # Null /\ settled.failed)]

----------------------------------------------------------------------------
(* The action atoms *)

fetchLibraryAction == Invoke("setLibrary")
openLibraryAction == Invoke("updateLibrarySwitchState")
createLibraryAction == Invoke("updateLibrarySwitchState")
initAction == Invoke("updateLibrarySwitchState")
addModsAction == Invoke("updateLibraryState")
removeModsAction == Invoke("updateLibraryState")
toggleModAction == Invoke("updateLibraryState")
syncModsAction == Invoke("updateLibraryState")
renameLibraryAction == Invoke("updateLibrarySwitchState")
closeLibraryAction == Invoke("updateLibrarySwitchState")
removeLibraryAction == Invoke("updateLibrarySwitchState")

\* a backend answer is delivered to the call that awaits it
Deliver ==
    \E k \in 1..Len(inflight) :
        \E answer \in Answers(inflight[k].updateState) : Settle(k, answer)

Init ==
    /\ libraryAtom = Null
    /\ librarySwitchAtom = Null
    /\ libraryLoadingAtom = FALSE
    /\ libraryErrorAtom = Null
    /\ inflight = <<>>
    /\ settled = Null

Next ==
    \/ fetchLibraryAction
    \/ openLibraryAction
    \/ createLibraryAction
    \/ initAction
    \/ addModsAction
    \/ removeModsAction
    \/ toggleModAction
    \/ syncModsAction
    \/ renameLibraryAction
    \/ closeLibraryAction
    \/ removeLibraryAction
    \/ Deliver

\* the hook-based store before LibraryInit has run
HookInit ==
    /\ ALibrarySwitch = Null
    /\ pending = <<>>
    /\ wrote = Null

\* no call of ur or translateError is being followed on its own
UtilIdle ==
    /\ unwrapping = Null
    /\ translated = <<>>

\* no ModCard is mounted
CardInit ==
    /\ card = Null
    /\ fired = <<>>
    /\ failedToggle = FALSE

\* no action call is followed statement by statement
StepInit ==
    /\ invocations = 0
    /\ commands = 0
    /\ running = Null

\* the library page of the action layer has fired no toggle
PageInit ==
    /\ requested = <<>>
    /\ honoured = 0

\* the mod list before any batch: a backend library whose mods are inactive
BatchMods == {"mod-1", "mod-2"}

BatchInit ==
    /\ backend = [m \in BatchMods |-> FALSE]
    /\ sent = <<>>
    /\ batch = Null

\* FileDropHandler before its first effect ran
DropInit ==
    /\ listeners = <<>>
    /\ dropped = Null

\* the mock data store before its first use
MockInit ==
    /\ mockDataStore = Null
    /\ timers = <<>>
    /\ mockRan = Null

\* retry has not been called
RetryInit == retrying = Null

\* the application as it starts: every store empty, nothing mounted or running
Idle ==
    /\ Init /\ HookInit /\ UtilIdle /\ CardInit /\ StepInit /\ PageInit
    /\ BatchInit /\ DropInit /\ MockInit /\ RetryInit

\* a step of the parts named in `parts` leaves every other part as it is
Only(parts) ==
    /\ IF "store" \in parts THEN TRUE ELSE UNCHANGED vars
    /\ IF "hook" \in parts THEN TRUE ELSE UNCHANGED hookVars
    /\ IF "util" \in parts THEN TRUE ELSE UNCHANGED utilVars
    /\ IF "card" \in parts THEN TRUE ELSE UNCHANGED cardVars
    /\ IF "steps" \in parts THEN TRUE ELSE UNCHANGED stepVars
    /\ IF "page" \in parts THEN TRUE ELSE UNCHANGED pageVars
    /\ IF "batch" \in parts THEN TRUE ELSE UNCHANGED batchVars
    /\ IF "drop" \in parts THEN TRUE ELSE UNCHANGED dropVars
    /\ IF "mock" \in parts THEN TRUE ELSE UNCHANGED mockVars
    /\ IF "retry" \in parts THEN TRUE ELSE UNCHANGED retryVars

Spec ==
    /\ Idle
    /\ [][Next /\ Only({"store"})]_allVars

----------------------------------------------------------------------------
(* Derived atoms and step predicates *)

\* get(librarySwitchAtom)?.active ?? null
activeLibraryAtom ==
    IF librarySwitchAtom = Null THEN Null ELSE librarySwitchAtom.active

\* get(librarySwitchAtom)?.libraries ?? []
knownLibrariesAtom ==
    IF librarySwitchAtom = Null THEN <<>> ELSE librarySwitchAtom.libraries

KnownIds(libraries) == {libraries[k].id : k \in DOMAIN libraries}

\* the last step settled a call built on the merge function `name`, which resolved
Resolved(name) ==
    settled # Null /\ settled.outcome = "resolved" /\ settled.updateState = name

Rejected == settled # Null /\ settled.outcome = "rejected"

InvokeStep == Len(inflight') = Len(inflight) + 1
SettleStep == Len(inflight') = Len(inflight) - 1

\* an active library is one of the known libraries, by id
ActiveIsKnown ==
    activeLibraryAtom # Null => activeLibraryAtom.id \in KnownIds(knownLibrariesAtom)

----------------------------------------------------------------------------
(* The claims *)

\* C1: after addMods, removeMods, toggleMod or syncMods resolves Ok with L, the
\* entry of librarySwitch.libraries whose id is L.id equals L.
C1_ListEntryReplaced ==
    Resolved("updateLibraryState") =>
        \A k \in DOMAIN knownLibrariesAtom :
            knownLibrariesAtom[k].id = settled.value.id
                => knownLibrariesAtom[k] = settled.value

\* C2: a call that fails writes neither librarySwitch nor the library cell:
\* the step that issues it and the step that settles it change error and
\* loading only.
C2_FailureWritesNothing ==
    [][(InvokeStep \/ (SettleStep /\ settled'.outcome = "rejected"))
          => /\ librarySwitchAtom' = librarySwitchAtom
             /\ libraryAtom' = libraryAtom]_vars

C2_Witness ==
    /\ Rejected
    /\ HasActive(librarySwitchAtom)
    /\ libraryAtom # Null

\* C3: when the backend answers Err e, the error cell holds an Error with the
\* message translateError(e), and the call rejects with that Error.
C3_ErrTranslatedAndRethrown ==
    (settled # Null /\ settled.answer.status = "error") =>
        /\ libraryErrorAtom = Error(translateError(settled.answer.error))
        /\ settled.outcome = "rejected"
        /\ settled.value = libraryErrorAtom

C3_Witness ==
    /\ settled # Null
    /\ settled.answer = Err(ObjErr("IOError"))
    /\ libraryErrorAtom.message =
         "A file system error occurred. Please check your file permissions or if something is opened and try again."

\* C4: after init, openLibrary, createLibrary, renameLibrary, closeLibrary or
\* removeLibrary resolves Ok with S, librarySwitch is S, active and libraries.
C4_SwitchReplacedInFull ==
    Resolved("updateLibrarySwitchState") =>
        /\ librarySwitchAtom = settled.answer.data
        /\ settled.value = settled.answer.data

C4_Witness ==
    /\ Resolved("updateLibrarySwitchState")
    /\ Len(librarySwitchAtom.libraries) = 1
    /\ librarySwitchAtom.active = librarySwitchAtom.libraries[1]
    /\ libraryErrorAtom = Null

\* C5: after addMods, removeMods, toggleMod or syncMods resolves Ok with L,
\* librarySwitch.active is L, whatever the store held when the answer came.
C5_ActiveIsResult ==
    Resolved("updateLibraryState") => activeLibraryAtom = settled.value

\* C6: in every reachable state, an active library has an entry with its id in
\* librarySwitch.libraries.
C6_ActiveAlwaysKnown == ActiveIsKnown

\* C6, amended: a switch-replacing call that resolves leaves the active library
\* known, and every step keeps it known, except a mod-mutating call that
\* resolves with a library whose id is not in librarySwitch.libraries.
C6_ActiveKnownUnlessForeignMerge ==
    /\ [][(SettleStep /\ Resolved("updateLibrarySwitchState")') => ActiveIsKnown']_vars
    /\ [][(ActiveIsKnown /\ ~ActiveIsKnown')
             => /\ SettleStep
                /\ Resolved("updateLibraryState")'
                /\ settled'.value.id \notin KnownIds(knownLibrariesAtom)]_vars

C6_Witness ==
    /\ Resolved("updateLibraryState")
    /\ ActiveIsKnown
    /\ activeLibraryAtom = settled.value
    /\ Len(knownLibrariesAtom) = 2
    /\ settled.value \notin Range(knownLibrariesAtom)

\* C7: two mod-mutating calls in flight together both resolve: the store's
\* library is the data of the answer delivered last, whichever call was issued
\* first, and so is librarySwitch.active when a library is active.
C7_LastDeliveredWins ==
    (Resolved("updateLibraryState") /\ settled.previous # Null) =>
        /\ libraryAtom = settled.value
        /\ activeLibraryAtom # Null => activeLibraryAtom = settled.value

C7_Witness ==
    /\ Resolved("updateLibraryState")
    /\ settled.previous # Null
    /\ ~settled.previous.older
    /\ settled.previous.data # settled.value
    /\ libraryAtom = settled.value
    /\ activeLibraryAtom = settled.value

\* C8: a call that settles while another call is still in flight leaves
\* loading false.
C8_SettleClearsSharedLoading ==
    (settled # Null /\ Len(inflight) > 0) => libraryLoadingAtom = FALSE

C8_Witness ==
    /\ libraryLoadingAtom = FALSE
    /\ Len(inflight) > 0

\* C9: issuing a call sets loading and clears error, settling it clears
\* loading, resolved or rejected; a call in flight alone has loading true, and
\* loading is false when no call is in flight.
C9_LoadingFollowsCall ==
    /\ [][InvokeStep => (libraryLoadingAtom' = TRUE /\ libraryErrorAtom' = Null)]_vars
    /\ [][SettleStep => libraryLoadingAtom' = FALSE]_vars
    /\ []((Len(inflight) = 1 /\ settled = Null) => libraryLoadingAtom = TRUE)
    /\ [](Len(inflight) = 0 => libraryLoadingAtom = FALSE)

C9_Witness ==
    /\ Rejected
    /\ Len(inflight) = 0
    /\ libraryLoadingAtom = FALSE
    /\ libraryErrorAtom # Null

\* C10: the error cell changes only when a call is issued (to null) and when a
\* call fails (to that failure); a call that resolves leaves it as it is.
C10_ErrorChangesOnlyOnIssueAndFailure ==
    /\ [][libraryErrorAtom' # libraryErrorAtom
            => \/ InvokeStep /\ libraryErrorAtom' = Null
               \/ /\ SettleStep
                  /\ settled'.outcome = "rejected"
                  /\ libraryErrorAtom' = settled'.value]_vars
    /\ [][(SettleStep /\ settled'.outcome = "resolved")
            => libraryErrorAtom' = libraryErrorAtom]_vars

C10_Witness ==
    /\ settled # Null
    /\ settled.outcome = "resolved"
    /\ libraryErrorAtom # Null

\* C11: when a call resolves, the error cell is null at the moment it settles,
\* in every interleaving.
C11_ResolvedMeansNoError ==
    (settled # Null /\ settled.outcome = "resolved") => libraryErrorAtom = Null

\* C11, amended: when a call resolves, the error cell is null at the moment it
\* settles unless a call was rejected since the last call was issued; then the
\* cell still holds an Error.
C11_ResolvedKeepsLaterFailure ==
    (settled # Null /\ settled.outcome = "resolved") =>
        (libraryErrorAtom = Null <=> ~settled.failed)

C11_Witness ==
    /\ settled # Null
    /\ settled.outcome = "resolved"
    /\ ~settled.failed
    /\ libraryErrorAtom = Null
    /\ Len(inflight) > 0

----------------------------------------------------------------------------
(* The hook-based store: ALibrarySwitch, ALibraryActive, createSetter *)

\* ALibraryActive, read: g(ALibrarySwitch)?.active || void 0
ALibraryActive ==
    IF ALibrarySwitch = Null THEN Null ELSE ALibrarySwitch.active

\* ALibraryList: g(ALibrarySwitch)?.libraries || []
ALibraryList ==
    IF ALibrarySwitch = Null THEN <<>> ELSE ALibrarySwitch.libraries

\* the write of ALibraryActive building the switch from the value alone
setALibraryActive_DropsList(switch, value) ==
    [libraries |-> <<>>, active |-> value]

\* ALibraryActive, written: the switch it sets
setALibraryActive(switch, value) ==
    [libraries |-> IF switch = Null THEN <<>> ELSE switch.libraries,
     active |-> value]

\* useSetAtom(ALibrarySwitch): the switch it sets
setALibrarySwitch(switch, value) == value

SetterNames == {"ALibrarySwitch", "ALibraryActive"}

setter(name, switch, value) ==
    CASE name = "ALibrarySwitch" -> setALibrarySwitch(switch, value)
      [] name = "ALibraryActive" -> setALibraryActive(switch, value)

\* the envelopes a command whose result goes to the setter `name` answers with
Envelopes(name) ==
    {Ok(d) : d \in IF name = "ALibrarySwitch" THEN BackendSwitches ELSE LibraryDTO}
        \cup {Err(e) : e \in BackendErrors}

\* createSetter(fn, setter)(...args), up to the backend call fn(...args)
Call(name) ==
    /\ Len(pending) < MaxCalls
    /\ pending' = Append(pending, [setter |-> name])
    /\ wrote' = Null
    /\ UNCHANGED ALibrarySwitch

\* the switch after .then(ur).then(setter).catch(ett) ran on the answer
switchAfter(name, switch, un) ==
    IF un.threw THEN switch ELSE setter(name, switch, un.value)

\* the value .catch(ett) hands to ett, Null when it does not run
ettArgument(un) ==
    IF un.threw THEN un.value ELSE Null

\* how often the chain calls ett
ettCalls(un) ==
    IF un.threw THEN 1 ELSE 0

\* the chain ending in a handler that throws what it was given again
chainOutcome_Rethrows(un) ==
    IF un.threw THEN "rejected" ELSE "resolved"

\* how the promise of the chain settles: .then(setter) fulfils it when ur
\* returned, .catch(ett) fulfils it with what ett returns when ur threw
chainOutcome(un) ==
    IF un.threw THEN "resolved" ELSE "resolved"

\* createSetter: the chain .then(ur).then(setter).catch(ett) on the answer
Chain(k, answer) ==
    LET name == pending[k].setter
        un == ur(answer)
    IN  /\ ALibrarySwitch' = switchAfter(name, ALibrarySwitch, un)
        /\ pending' = RemoveAt(pending, k)
        /\ wrote' = [setter |-> name,
                     answer |-> answer,
                     set |-> ~un.threw,
                     ett |-> ettArgument(un),
                     calls |-> ettCalls(un),
                     outcome |-> chainOutcome(un)]

\* LibraryInit: createSetter(commands.init, set)
init == Call("ALibrarySwitch")
\* useLibrary: createSetter(commands.addMods, set) and its siblings
add == Call("ALibraryActive")
remove == Call("ALibraryActive")
sync == Call("ALibraryActive")
toggle == Call("ALibraryActive")

Answer ==
    \E k \in 1..Len(pending) :
        \E answer \in Envelopes(pending[k].setter) : Chain(k, answer)

HookNext ==
    \/ init
    \/ add
    \/ remove
    \/ sync
    \/ toggle
    \/ Answer

SpecHook ==
    /\ Idle
    /\ [][HookNext /\ Only({"hook"})]_allVars

\* the last step ran the setter `name` on an Ok answer
Wrote(name) == wrote # Null /\ wrote.set /\ wrote.setter = name

AnswerStep == Len(pending') = Len(pending) - 1

\* C12: writing the active library through ALibraryActive keeps the known
\* libraries: the switch written has the list the store held before, the empty
\* list when the store held no switch.
C12_ActiveWriteKeepsList ==
    [][(AnswerStep /\ Wrote("ALibraryActive")')
          => /\ ALibrarySwitch' # Null
             /\ ALibrarySwitch'.libraries = ALibraryList
             /\ ALibrarySwitch'.active = wrote'.answer.data]_<<vars, hookVars>>

C12_Witness ==
    /\ Wrote("ALibraryActive")
    /\ Len(ALibraryList) = 2
    /\ ALibraryActive = wrote.answer.data

\* C13: writing the active library L through ALibraryActive leaves L in
\* libraries: the entry with L.id is replaced with L, and L is inserted when no
\* entry has that id.
C13_ActiveWriteUpdatesList ==
    Wrote("ALibraryActive") => wrote.answer.data \in Range(ALibraryList)

----------------------------------------------------------------------------
(* The Result unwrapper ur, followed through one call *)

\* the handlers the checked calls pass: one returning both of its arguments,
\* one turning an error into null
Handlers == {[name |-> "both"], [name |-> "okOrNull"]}

\* handler(ok, err)
handle(handler, ok, err) ==
    CASE handler.name = "both" -> [ok |-> ok, err |-> err]
      [] handler.name = "okOrNull" -> IF err # Null THEN Null ELSE ok

\* resultPromise: the envelope itself, or a promise fulfilled with it
Direct(result) == [promise |-> FALSE, value |-> result]
Promise(result) == [promise |-> TRUE, value |-> result]

\* await resultPromise
await(resultPromise) == resultPromise.value

\* ur throwing on an error before it looks for a handler
urBody_ThrowsBeforeHandler(result, handler) ==
    IF result.status = "error"
    THEN [threw |-> TRUE, value |-> Error(translateError(result.error)), calls |-> 0]
    ELSE IF handler # Null
         THEN [threw |-> FALSE, value |-> handle(handler, result.data, Null), calls |-> 1]
         ELSE [threw |-> FALSE, value |-> result.data, calls |-> 0]

\* the body of ur after the await: what it returns or throws, and how many
\* times it called the handler
urBody(result, handler) ==
    IF result.status = "error"
    THEN IF handler # Null
         THEN [threw |-> FALSE, value |-> handle(handler, Null, result.error), calls |-> 1]
         ELSE [threw |-> ur(result).threw, value |-> ur(result).value, calls |-> 0]
    ELSE IF handler # Null
         THEN [threw |-> FALSE, value |-> handle(handler, result.data, Null), calls |-> 1]
         ELSE [threw |-> ur(result).threw, value |-> ur(result).value, calls |-> 0]

\* ur(resultPromise, handler) was called
urCalled(result, handler) ==
    \E resultPromise \in {Direct(result), Promise(result)} :
        unwrapping = [pc |-> "await", resultPromise |-> resultPromise,
                      handler |-> handler, result |-> Null, settled |-> Null]

\* the calls followed: the data of an Ok envelope is a library, a switch, or
\* nothing (the commands answering Result<null, SError>); the error of an Err
\* envelope is any SError; the handler is one of Handlers or is left out
UnwrapInit ==
    \E handler \in Handlers :
        \E given \in BOOLEAN :
            LET h == IF given THEN handler ELSE Null
            IN  \/ \E d \in LibraryDTO : urCalled(Ok(d), h)
                \/ \E d \in BackendSwitches : urCalled(Ok(d), h)
                \/ urCalled(Ok(Null), h)
                \/ \E e \in SError : urCalled(Err(e), h)

\* const result = await resultPromise
urAwait ==
    /\ unwrapping.pc = "await"
    /\ unwrapping' = [unwrapping EXCEPT !.pc = "body",
                                        !.result = await(unwrapping.resultPromise)]
    /\ UNCHANGED translated

\* the rest of ur
urSettle ==
    /\ unwrapping.pc = "body"
    /\ unwrapping' = [unwrapping EXCEPT
                          !.pc = "done",
                          !.settled = urBody(unwrapping.result, unwrapping.handler)]
    /\ UNCHANGED translated

UnwrapNext ==
    \/ urAwait
    \/ urSettle

\* the application idle but for the call of ur
UnwrapStart ==
    /\ Init /\ HookInit /\ CardInit /\ StepInit /\ PageInit /\ BatchInit
    /\ DropInit /\ MockInit /\ RetryInit
    /\ UnwrapInit /\ translated = <<>>

SpecUnwrap ==
    /\ UnwrapStart
    /\ [][UnwrapNext /\ Only({"util"})]_allVars

\* the call of ur has settled
Unwrapped == unwrapping.pc = "done"

\* the envelope the call was given
UnwrapInput == unwrapping.resultPromise.value

\* C14: without a handler, an Err envelope with error e makes ur throw an Error
\* whose message is translateError(e), for every SError e; it never returns.
C14_ErrThrowsTranslated ==
    (Unwrapped /\ UnwrapInput.status = "error" /\ unwrapping.handler = Null) =>
        /\ unwrapping.settled.threw
        /\ unwrapping.settled.value = Error(translateError(UnwrapInput.error))

C14_Witness ==
    /\ Unwrapped
    /\ UnwrapInput = Err(ObjErr("ParseError"))
    /\ unwrapping.handler = Null
    /\ unwrapping.settled.threw
    /\ unwrapping.settled.value.message =
           "A parsing error occurred. The file may be corrupted or in an invalid format."

\* C15: without a handler, an Ok envelope with data d makes ur return exactly d
\* and not throw, for every d, given the envelope itself or a promise of it.
C15_OkReturnsData ==
    (Unwrapped /\ UnwrapInput.status = "ok" /\ unwrapping.handler = Null) =>
        /\ ~unwrapping.settled.threw
        /\ unwrapping.settled.value = UnwrapInput.data

C15_Witness ==
    /\ Unwrapped
    /\ unwrapping.resultPromise.promise
    /\ UnwrapInput = Ok(Null)
    /\ unwrapping.handler = Null
    /\ ~unwrapping.settled.threw
    /\ unwrapping.settled.value = Null

\* C16: with a handler, ur does not throw: an Err envelope returns
\* handler(undefined, error), an Ok envelope returns handler(data, undefined),
\* and the handler is called exactly once.
C16_HandlerDecides ==
    (Unwrapped /\ unwrapping.handler # Null) =>
        /\ ~unwrapping.settled.threw
        /\ unwrapping.settled.calls = 1
        /\ unwrapping.settled.value =
               IF UnwrapInput.status = "error"
               THEN handle(unwrapping.handler, Null, UnwrapInput.error)
               ELSE handle(unwrapping.handler, UnwrapInput.data, Null)

C16_Witness ==
    /\ Unwrapped
    /\ unwrapping.handler = [name |-> "both"]
    /\ UnwrapInput = Err(StrErr("Link"))
    /\ unwrapping.settled = [threw |-> FALSE,
                             value |-> [ok |-> Null, err |-> StrErr("Link")],
                             calls |-> 1]

----------------------------------------------------------------------------
(* The error translator translateError, followed through a few calls *)

\* calls of translateError followed in one run
MaxTranslations == 2

\* translateError(error)
translate(error) ==
    /\ Len(translated) < MaxTranslations
    /\ translated' = Append(translated,
                            [error |-> error, message |-> translateError(error)])
    /\ UNCHANGED unwrapping

TranslateNext == \E error \in SError : translate(error)

SpecTranslate ==
    /\ Idle
    /\ [][TranslateNext /\ Only({"util"})]_allVars

Translations == Range(translated)

\* the SError values of the generated bindings
Defined(error) ==
    \/ error.type = "string" /\ error.value \in BareVariants
    \/ error.type = "object" /\ error.keys \subseteq StructuredVariants

\* the messages translateError returns for a value it has no case for
BareFallback == "An error occurred. Please try again."
StructuredFallback == "An unknown error occurred. Please try again."

\* C17: an unrecognized bare string is answered with the generic "unexpected
\* error" message and an unrecognized structured value with the generic
\* "unknown error" message.
C17_UnknownGetsUnexpectedOrUnknown ==
    \A call \in Translations :
        ~Defined(call.error) =>
            call.message = IF call.error.type = "string"
                           THEN "An unexpected error occurred. Please try again."
                           ELSE "An unknown error occurred. Please try again."

\* C17, amended: an unrecognized bare string is answered with "An error
\* occurred. Please try again." (the default clause, which does not reach the
\* "unexpected error" message of the cases after it), an unrecognized
\* structured value with "An unknown error occurred. Please try again."; a
\* message is returned in both cases.
C17_UnknownGetsDefaultOrUnknown ==
    \A call \in Translations :
        ~Defined(call.error) =>
            call.message = IF call.error.type = "string"
                           THEN "An error occurred. Please try again."
                           ELSE "An unknown error occurred. Please try again."

C17_Witness ==
    /\ Len(translated) = 2
    /\ translated[1] = [error |-> StrErr("FutureBareVariant"), message |-> BareFallback]
    /\ translated[2] = [error |-> ObjErr("FutureStructuredVariant"),
                        message |-> StructuredFallback]

\* the defined variants translateError answers with one shared message
SharedMessage == {StrErr("ContextUnprovided"), StrErr("NoActiveLibrary"), StrErr("Unexpected")}

\* C18: every defined variant gets a non-empty message of its own: no two
\* defined variants get the same message and none gets a fallback message.
C18_EveryVariantOwnMessage ==
    \A one, other \in Translations :
        Defined(one.error) =>
            /\ one.message # ""
            /\ one.message \notin {BareFallback, StructuredFallback}
            /\ (Defined(other.error) /\ other.error # one.error)
                   => other.message # one.message

\* C18, amended: every defined variant gets a non-empty message that is no
\* fallback message; two distinct defined variants get the same message
\* exactly when both are among ContextUnprovided, NoActiveLibrary and
\* Unexpected, which share "An unexpected error occurred. Please try again.".
C18_OwnMessageButThreeShared ==
    \A one, other \in Translations :
        Defined(one.error) =>
            /\ one.message # ""
            /\ one.message \notin {BareFallback, StructuredFallback}
            /\ (Defined(other.error) /\ other.error # one.error)
                   => (other.message = one.message
                          <=> {one.error, other.error} \subseteq SharedMessage)

C18_Witness ==
    /\ Len(translated) = 2
    /\ translated[1].error = StrErr("ContextUnprovided")
    /\ translated[2].error = StrErr("Unexpected")
    /\ translated[1].message = translated[2].message
    /\ translated[1].message = "An unexpected error occurred. Please try again."

----------------------------------------------------------------------------
(* The mod card with its optimistic toggle, on the library page of the       *)
(* hook-based store: routes/index.tsx renders ModList from ALibraryActive,   *)
(* ModList renders one ModCard per mod, keyed by the mod's id, and hands it  *)
(* handleToggleMod as onToggle.                                              *)

\* the mod the card shows
CardMod == CHOOSE id \in ModIds : TRUE

\* the card mounting with useState(false)
mount_Inactive(is_active) == [optimisticActive |-> FALSE, is_active |-> is_active]

\* useState(mod.is_active): the card as it mounts
mount(is_active) == [optimisticActive |-> is_active, is_active |-> is_active]

\* the card without its effect: it only takes the new prop
effect_Never(mounted, is_active) ==
    [mounted EXCEPT !.is_active = is_active]

\* useEffect(() => setOptimisticActive(mod.is_active), [mod.is_active]) on a
\* render of the mounted card: it runs when the dependency changed
effect(mounted, is_active) ==
    IF is_active # mounted.is_active
    THEN [optimisticActive |-> is_active, is_active |-> is_active]
    ELSE mounted

\* the page rendered from the active library: no list without a library, a
\* new card for a mod that had none, the same card under the same key
render(mounted, library) ==
    IF library = Null THEN Null
    ELSE IF mounted = Null THEN mount(library.mods[CardMod])
    ELSE effect(mounted, library.mods[CardMod])

\* a createSetter call made by anything but the card's toggle
called(name) ==
    /\ Call(name)
    /\ fired' = Append(fired, FALSE)
    /\ UNCHANGED <<card, failedToggle>>

\* LibraryInit
LibraryInit == called("ALibrarySwitch")
\* RouteComponent: add, sync and remove of the page, toggle of the details page
handleAddModFiles == called("ALibraryActive")
handleSync == called("ALibraryActive")
handleRemoveMods == called("ALibraryActive")
ModDetailsComponent == called("ALibraryActive")

\* ModCard.handleToggle: flip the local flag, then onToggle(mod.id, newState),
\* which is handleToggleMod calling toggle(id, isActive) of useLibrary
handleToggle ==
    /\ card # Null
    /\ card' = [card EXCEPT !.optimisticActive = ~card.optimisticActive]
    /\ Call("ALibraryActive")
    /\ fired' = Append(fired, TRUE)
    /\ UNCHANGED failedToggle

\* a backend answer going through the chain of createSetter, and the render
\* that follows a write of the store
answered(k, answer) ==
    /\ Chain(k, answer)
    /\ fired' = RemoveAt(fired, k)
    /\ card' = render(card, ALibraryActive')
    /\ failedToggle' = IF ur(answer).threw
                       THEN failedToggle \/ fired[k]
                       ELSE FALSE

CardAnswer ==
    \E k \in 1..Len(pending) :
        \E answer \in Envelopes(pending[k].setter) : answered(k, answer)

CardNext ==
    \/ LibraryInit
    \/ handleAddModFiles
    \/ handleSync
    \/ handleRemoveMods
    \/ ModDetailsComponent
    \/ handleToggle
    \/ CardAnswer

SpecCard ==
    /\ Idle
    /\ [][CardNext /\ Only({"hook", "card"})]_allVars

\* the step is a toggle of the card
ToggleStep == Len(fired') = Len(fired) + 1 /\ fired'[Len(fired')]

\* the step writes an active library in which the card's mod is active
RefreshActiveStep ==
    /\ AnswerStep
    /\ wrote'.set
    /\ ALibraryActive' # Null
    /\ ALibraryActive'.mods[CardMod]

\* C19: a toggle of a card whose mod has is_active = false makes the local
\* flag true in that step, with the call pending and the store not written;
\* a store refresh with is_active = true then leaves the flag true.
C19_ToggleShowsActive ==
    [][/\ (ToggleStep /\ ~card.is_active)
            => /\ card'.optimisticActive
               /\ Len(pending') = Len(pending) + 1
               /\ ALibrarySwitch' = ALibrarySwitch
       /\ (RefreshActiveStep /\ card # Null /\ card.optimisticActive)
            => card'.optimisticActive]_allVars

\* C19, amended: the toggle makes the flag true when the flag was false as
\* well, that is when no earlier toggle of the card is still shown; toggling a
\* card whose flag is already true while is_active is false makes it false.
C19_ToggleOfSyncedCardShowsActive ==
    [][/\ (ToggleStep /\ ~card.is_active)
            => /\ card'.optimisticActive = ~card.optimisticActive
               /\ Len(pending') = Len(pending) + 1
               /\ ALibrarySwitch' = ALibrarySwitch
       /\ (RefreshActiveStep /\ card # Null /\ (card.optimisticActive \/ ~card.is_active))
            => card'.optimisticActive]_allVars

C19_Witness ==
    /\ card # Null
    /\ card.optimisticActive
    /\ ~card.is_active
    /\ Len(fired) = 1
    /\ fired[1]
    /\ ~ALibraryActive.mods[CardMod]

\* C20: a failing toggle of the card leaves the local flag as it is, and the
\* next write of the active library makes the flag equal to the store's
\* is_active of the mod.
C20_NextUpdateResyncs ==
    [][AnswerStep =>
          /\ (failedToggle' /\ ~failedToggle) => card' = card
          /\ (failedToggle /\ wrote'.set /\ card' # Null)
                => card'.optimisticActive = ALibraryActive'.mods[CardMod]]_allVars

----------------------------------------------------------------------------
(* Further claims on the action layer *)

\* C21: a resolving addMods, removeMods, toggleMod or syncMods call returning L
\* leaves every entry of librarySwitch.libraries with another id than L.id
\* unchanged in value and position, and leaves the length of the list.
C21_OtherEntriesUntouched ==
    [][(SettleStep /\ Resolved("updateLibraryState")')
          => /\ Len(knownLibrariesAtom') = Len(knownLibrariesAtom)
             /\ \A k \in DOMAIN knownLibrariesAtom :
                    knownLibrariesAtom[k].id # settled'.value.id
                        => knownLibrariesAtom'[k] = knownLibrariesAtom[k]]_vars

C21_Witness ==
    /\ Resolved("updateLibraryState")
    /\ activeLibraryAtom = settled.value
    /\ Len(knownLibrariesAtom) = 2
    /\ knownLibrariesAtom[1].id # settled.value.id
    /\ knownLibrariesAtom[2].id = settled.value.id

----------------------------------------------------------------------------
(* withAsyncState statement by statement: the statements after the await     *)
(* run one after the other without another call's code in between, and the  *)
(* caller sees the promise settle after the finally block                   *)

\* action invocations followed in one run
MaxInvocations == 3

\* no continuation is in the middle of its statements
Quiet == IF running = Null THEN TRUE ELSE running.pc = "settled"

\* set(loading, true); set(error, null); operation(...args), which sends the
\* one command of the action
begin(name) ==
    /\ Quiet
    /\ invocations < MaxInvocations
    /\ Len(inflight) < MaxCalls
    /\ libraryLoadingAtom' = TRUE
    /\ libraryErrorAtom' = Null
    /\ inflight' = Append(inflight, [updateState |-> name])
    /\ invocations' = invocations + 1
    /\ commands' = commands + 1
    /\ running' = Null
    /\ UNCHANGED <<libraryAtom, librarySwitchAtom, settled>>

\* the await ending with loading cleared at once
resume_ClearsLoadingFirst(k, answer) ==
    /\ Quiet
    /\ k \in 1..Len(inflight)
    /\ running' = [pc |-> IF operation(answer).threw THEN "catch" ELSE "try",
                   updateState |-> inflight[k].updateState,
                   answer |-> answer,
                   op |-> operation(answer),
                   before |-> Cells(libraryAtom, librarySwitchAtom),
                   outcome |-> "pending",
                   value |-> Null]
    /\ inflight' = RemoveAt(inflight, k)
    /\ libraryLoadingAtom' = FALSE
    /\ UNCHANGED <<libraryAtom, librarySwitchAtom, libraryErrorAtom,
                   settled, invocations, commands>>

\* the backend answers the call at position k: await operation(...args) ends
resume(k, answer) ==
    /\ Quiet
    /\ k \in 1..Len(inflight)
    /\ running' = [pc |-> IF operation(answer).threw THEN "catch" ELSE "try",
                   updateState |-> inflight[k].updateState,
                   answer |-> answer,
                   op |-> operation(answer),
                   before |-> Cells(libraryAtom, librarySwitchAtom),
                   outcome |-> "pending",
                   value |-> Null]
    /\ inflight' = RemoveAt(inflight, k)
    /\ UNCHANGED <<libraryAtom, librarySwitchAtom, libraryLoadingAtom,
                   libraryErrorAtom, settled, invocations, commands>>

\* updateState(get, set, result); return result
tryBlock ==
    /\ running # Null
    /\ running.pc = "try"
    /\ LET after == cellsAfter(running.updateState,
                               Cells(libraryAtom, librarySwitchAtom), running.op)
       IN  /\ libraryAtom' = after.libraryAtom
           /\ librarySwitchAtom' = after.librarySwitchAtom
    /\ running' = [running EXCEPT !.pc = "finally",
                                  !.outcome = "resolved",
                                  !.value = running.op.value]
    /\ UNCHANGED <<libraryLoadingAtom, libraryErrorAtom, inflight, settled,
                   invocations, commands>>

\* the catch block calling the operation once more
catchBlock_Retries ==
    /\ running # Null
    /\ running.pc = "catch"
    /\ libraryErrorAtom' = errorAfter(running.op, libraryErrorAtom)
    /\ commands' = commands + 1
    /\ running' = [running EXCEPT !.pc = "finally",
                                  !.outcome = "rejected",
                                  !.value = errorAfter(running.op, libraryErrorAtom)]
    /\ UNCHANGED <<libraryAtom, librarySwitchAtom, libraryLoadingAtom, inflight,
                   settled, invocations>>

\* set(libraryErrorAtom, error); throw error
catchBlock ==
    /\ running # Null
    /\ running.pc = "catch"
    /\ libraryErrorAtom' = errorAfter(running.op, libraryErrorAtom)
    /\ running' = [running EXCEPT !.pc = "finally",
                                  !.outcome = "rejected",
                                  !.value = errorAfter(running.op, libraryErrorAtom)]
    /\ UNCHANGED <<libraryAtom, librarySwitchAtom, libraryLoadingAtom, inflight,
                   settled, invocations, commands>>

\* finally { set(libraryLoadingAtom, false) }, after which the promise of the
\* call settles with the value returned or thrown
finallyBlock ==
    /\ running # Null
    /\ running.pc = "finally"
    /\ libraryLoadingAtom' = loadingAfter(libraryLoadingAtom)
    /\ running' = [running EXCEPT !.pc = "settled"]
    /\ UNCHANGED <<libraryAtom, librarySwitchAtom, libraryErrorAtom, inflight,
                   settled, invocations, commands>>

invoked == \E name \in MergeNames : begin(name)

answeredCall ==
    \E k \in 1..Len(inflight) :
        \E answer \in Answers(inflight[k].updateState) : resume(k, answer)

StepNext ==
    \/ invoked
    \/ answeredCall
    \/ tryBlock
    \/ catchBlock
    \/ finallyBlock

SpecSteps ==
    /\ Idle
    /\ [][StepNext /\ Only({"store", "steps"})]_allVars

\* C22: every action invocation sends exactly one backend command and none is
\* sent again: the commands sent are as many as the invocations, also after
\* calls were answered with Err.
C22_OneCommandPerInvocation ==
    /\ commands = invocations
    /\ Len(inflight) <= commands

C22_Witness ==
    /\ invocations = 2
    /\ commands = 2
    /\ inflight = <<>>
    /\ running # Null
    /\ running.pc = "settled"
    /\ running.outcome = "rejected"
    /\ running.answer.status = "error"

\* the continuation that runs belongs to a call that resolved
RunResolved == running # Null /\ running.outcome = "resolved"

\* the library cells hold the merge of the call's data into the cells it found
Merged ==
    Cells(libraryAtom, librarySwitchAtom)
        = updateState(running.updateState, running.before, running.answer.data)

\* C24: the promise of a call resolves only after its merge: when the caller
\* sees the Ok result the store holds the merged value and the value resolved
\* with is the backend's data; loading turns false only after the merge.
C24_ResolvesAfterMerge ==
    [][/\ (RunResolved' /\ running'.pc = "settled")
            => /\ Merged'
               /\ running'.value = running'.answer.data
               /\ ~libraryLoadingAtom'
       /\ (libraryLoadingAtom /\ ~libraryLoadingAtom')
            => /\ running # Null
               /\ running.pc = "finally"
               /\ running.outcome = "resolved" => Merged]_allVars

C24_Witness ==
    /\ RunResolved
    /\ running.pc = "settled"
    /\ running.updateState = "updateLibrarySwitchState"
    /\ running.before.librarySwitchAtom # Null
    /\ librarySwitchAtom = running.answer.data
    /\ librarySwitchAtom # running.before.librarySwitchAtom
    /\ ~libraryLoadingAtom
    /\ Len(inflight) = 1

----------------------------------------------------------------------------
(* The mod card on the library page of the action layer: RouteComponent    *)
(* reads library, loading and error of useLibrary (use-library-state),     *)
(* shows a loading view while loading is true and the error while error is *)
(* set, and renders ModList with toggleMod of useMods otherwise.           *)

\* if (loading) return ...; if (error) return ...; library ? <ModList> : ...
listShown(loading, error, library) ==
    ~loading /\ error = Null /\ library # Null

\* the card after the page rendered: gone with the list, mounted anew when
\* the list comes back
pageRender(mounted, loading, error, library) ==
    IF listShown(loading, error, library)
    THEN render(mounted, library)
    ELSE Null

\* an action invoked by anything but the card
pageInvoke(name) ==
    /\ Invoke(name)
    /\ requested' = Append(requested, Null)
    /\ card' = pageRender(card, libraryLoadingAtom', libraryErrorAtom', libraryAtom')
    /\ UNCHANGED <<honoured, fired, failedToggle>>

\* ModCard.handleToggle with onToggle = handleToggleMod: the flag is negated,
\* toggleMod(id, newState) is invoked, and the page renders on the new loading
handleToggleMod ==
    /\ card # Null
    /\ toggleModAction
    /\ requested' = Append(requested, [isActive |-> ~card.optimisticActive])
    /\ card' = pageRender([card EXCEPT !.optimisticActive = ~card.optimisticActive],
                          libraryLoadingAtom', libraryErrorAtom', libraryAtom')
    /\ UNCHANGED <<honoured, fired, failedToggle>>

\* the answer gives the card's mod the is_active the call asked for
Honours(asked, answer) ==
    IF asked = Null THEN TRUE
    ELSE IF answer.status = "ok" THEN answer.data.mods[CardMod] = asked.isActive
    ELSE FALSE

\* the count of honoured toggles after an answer to a call that asked for `asked`
honouredAfter(before, asked, answer) ==
    IF asked = Null THEN before
    ELSE IF before = -1 \/ ~Honours(asked, answer) THEN -1
    ELSE IF before = 0 THEN 1
    ELSE 2

\* a backend answer settles a call and the page renders on the new cells
pageSettle(k, answer) ==
    /\ Settle(k, answer)
    /\ requested' = RemoveAt(requested, k)
    /\ honoured' = honouredAfter(honoured, requested[k], answer)
    /\ card' = pageRender(card, libraryLoadingAtom', libraryErrorAtom', libraryAtom')
    /\ UNCHANGED <<fired, failedToggle>>

pageAction == \E name \in MergeNames : pageInvoke(name)

\* the backend's answers while the page is followed: switches of one library
\* at most
pageAnswers(name) ==
    {e \in Answers(name) :
        (name = "updateLibrarySwitchState" /\ e.status = "ok")
            => Len(e.data.libraries) <= 1}

pageDeliver ==
    \E k \in 1..Len(inflight) :
        \E answer \in pageAnswers(inflight[k].updateState) : pageSettle(k, answer)

PageNext ==
    \/ pageAction
    \/ handleToggleMod
    \/ pageDeliver

SpecPage ==
    /\ Idle
    /\ [][PageNext /\ Only({"store", "card", "page"})]_allVars

\* C23: when every toggle the card fired resolved Ok with the is_active it
\* asked for, no call is in flight and all answers are merged, the card's
\* local flag equals the store's is_active of the mod.
C23_FlagConvergesToStore ==
    (honoured # -1 /\ inflight = <<>> /\ card # Null)
        => card.optimisticActive = libraryAtom.mods[CardMod]

C23_Witness ==
    /\ honoured = 2
    /\ inflight = <<>>
    /\ card # Null
    /\ card.optimisticActive
    /\ libraryAtom.mods[CardMod]

----------------------------------------------------------------------------
(* Further claims on the hook-based store *)

\* C25: for add, remove, sync and toggle of useLibrary, a backend Err answer
\* never runs the setter (the switch stays as it is), the translated Error is
\* handed to ett exactly once, and the promise returned resolves.
C25_ErrToastedNotThrown ==
    [][(AnswerStep /\ wrote'.setter = "ALibraryActive" /\ wrote'.answer.status = "error")
          => /\ ~wrote'.set
             /\ ALibrarySwitch' = ALibrarySwitch
             /\ wrote'.calls = 1
             /\ wrote'.ett = Error(translateError(wrote'.answer.error))
             /\ wrote'.outcome = "resolved"]_allVars

C25_Witness ==
    /\ wrote # Null
    /\ wrote.setter = "ALibraryActive"
    /\ wrote.answer = Err(ObjErr("IOError"))
    /\ ALibraryActive # Null
    /\ wrote.ett # Null
    /\ wrote.ett.message =
           "A file system error occurred. Please check your file permissions or if something is opened and try again."
    /\ wrote.outcome = "resolved"

\* C26: after every completed action call the libraryAtom cell equals the
\* active library derived from librarySwitch (its active, or null without a
\* switch).
C26_LibraryIsDerivedActive ==
    settled # Null => libraryAtom = activeLibraryAtom

-----------------------------------------------------------------------------
(* The batch toggle of the mod list (components/mod/mod-list.tsx) on the     *)
(* page of the action layer. The backend handles the commands it received   *)
(* one at a time, in any order, each on its own copy of the library, and    *)
(* answers a toggle with the library as it is once the toggle is applied.   *)

BatchLibrary(mods) == [id |-> "lib-a", mods |-> mods]

\* the selections the list can hold, in the order the mods were selected
Selections ==
    {arr \in UNION {[1..n -> BatchMods] : n \in 1..Cardinality(BatchMods)} :
        \A i, j \in DOMAIN arr : i # j => arr[i] # arr[j]}

\* refresh of useLibrary: fetchLibrary() asks the backend for the library
batchRefresh ==
    /\ inflight = <<>>
    /\ fetchLibraryAction
    /\ sent' = Append(sent, [mod |-> "none", isActive |-> FALSE, response |-> Null])
    /\ batch' = Null
    /\ UNCHANGED backend

\* handleBatchToggle(isActive): Promise.all over selectedModsArray.map, every
\* onModToggle(id, isActive) running toggleModAction up to its await before
\* the next one starts
handleBatchToggle(selectedModsArray, isActive) ==
    LET n == Len(selectedModsArray) IN
    /\ listShown(libraryLoadingAtom, libraryErrorAtom, libraryAtom)
    /\ inflight = <<>>
    /\ Len(inflight) + n <= MaxCalls
    /\ libraryLoadingAtom' = TRUE
    /\ libraryErrorAtom' = Null
    /\ inflight' = inflight \o [i \in 1..n |-> [updateState |-> "updateLibraryState"]]
    /\ settled' = Null
    /\ sent' = sent \o [i \in 1..n |-> [mod |-> selectedModsArray[i],
                                        isActive |-> isActive,
                                        response |-> Null]]
    /\ batch' = [ids |-> Range(selectedModsArray), isActive |-> isActive]
    /\ UNCHANGED <<libraryAtom, librarySwitchAtom, backend>>

\* the backend's library after it handled a command
handled(mods, command) ==
    IF command.mod = "none"
    THEN mods
    ELSE [mods EXCEPT ![command.mod] = command.isActive]

\* the backend handles one of the commands it has not answered yet
backendHandle(k) ==
    /\ sent[k].response = Null
    /\ backend' = handled(backend, sent[k])
    /\ sent' = [sent EXCEPT ![k].response = BatchLibrary(backend')]
    /\ settled' = Null
    /\ UNCHANGED <<libraryAtom, librarySwitchAtom, libraryLoadingAtom,
                   libraryErrorAtom, inflight, batch>>

\* the response of a handled command reaches the call that awaits it
batchDeliver(k) ==
    /\ sent[k].response # Null
    /\ Settle(k, Ok(sent[k].response))
    /\ sent' = RemoveAt(sent, k)
    /\ UNCHANGED <<backend, batch>>

BatchNext ==
    \/ batchRefresh
    \/ \E arr \in Selections, isActive \in BOOLEAN : handleBatchToggle(arr, isActive)
    \/ \E k \in 1..Len(sent) : backendHandle(k)
    \/ \E k \in 1..Len(sent) : batchDeliver(k)

SpecBatch ==
    /\ Idle
    /\ [][BatchNext /\ Only({"store", "batch"})]_allVars

\* the last response of the batch has just been merged
BatchDone == batch # Null /\ inflight = <<>> /\ settled # Null

\* every selected mod has the requested is_active in the store's library
SelectedAsRequested ==
    \A id \in batch.ids : libraryAtom.mods[id] = batch.isActive

\* C27 as stated: after the last response of a batch whose calls all resolved
\* Ok is merged, every selected mod has the requested is_active in the store's
\* active library, in whichever order the responses were delivered.
C27_EverySelectedModRequested == BatchDone => SelectedAsRequested

\* C27 amended: after the last response of the batch is merged, the store's
\* active library is the library of the response delivered last, and every
\* selected mod has the requested is_active exactly when that response carries
\* the backend's library as it is after all the calls of the batch.
C27_LastDeliveredWins ==
    BatchDone =>
        /\ libraryAtom = settled.value
        /\ SelectedAsRequested <=> (libraryAtom.mods = backend)

\* a batch that activated both mods, the store showing both active
C27_Witness ==
    /\ BatchDone
    /\ batch.ids = BatchMods
    /\ batch.isActive
    /\ SelectedAsRequested

-----------------------------------------------------------------------------
(* FileDropHandler (components/file-drop-handler.tsx). Every run of its     *)
(* effect registers a drag-drop listener that holds the library of the      *)
(* render it ran in. onDragDropEvent answers with a promise: the listener   *)
(* receives events from some moment before the promise resolves, and the    *)
(* effect's cleanup removes it once the promise has resolved.               *)

MaxListeners == 2

\* the listener of the effect that ran last, 0 before the first effect
current ==
    IF \E i \in DOMAIN listeners : ~listeners[i].cleaned
    THEN CHOOSE i \in DOMAIN listeners : ~listeners[i].cleaned
    ELSE 0

\* the listeners left by the cleanup `unlistenPromise?.then((unlisten) =>
\* unlisten())`: a listener whose promise has resolved is removed before any
\* other event, one that is still registering stays until it has
cleanup(ls) ==
    LET i == current IN
    IF i = 0 THEN ls
    ELSE IF ls[i].state = "resolved" THEN RemoveAt(ls, i)
    ELSE [ls EXCEPT ![i].cleaned = TRUE]

\* useEffect(..., [library, add]): after a render with another library the
\* cleanup of the last effect runs, then onDragDropEvent registers a listener
\* that holds the library of this render
dropEffect ==
    /\ Len(listeners) < MaxListeners
    /\ IF current = 0 THEN TRUE ELSE listeners[current].library # ALibraryActive
    /\ listeners' = Append(cleanup(listeners),
                           [library |-> ALibraryActive,
                            state |-> "registering",
                            cleaned |-> FALSE])
    /\ UNCHANGED <<dropped, hookVars>>

\* the window starts to deliver drag-drop events to the listener
listening(i) ==
    /\ listeners[i].state = "registering"
    /\ listeners' = [listeners EXCEPT ![i].state = "listening"]
    /\ UNCHANGED <<dropped, hookVars>>

\* unlistenPromise resolves; the cleanup that waited for it removes the listener
registered(i) ==
    /\ listeners[i].state = "listening"
    /\ listeners' = IF listeners[i].cleaned
                    THEN RemoveAt(listeners, i)
                    ELSE [listeners EXCEPT ![i].state = "resolved"]
    /\ UNCHANGED <<dropped, hookVars>>

\* the listeners an event reaches
reached == {i \in DOMAIN listeners : listeners[i].state \in {"listening", "resolved"}}

\* the callback for a drop: `if (!library) return`, else add(paths, ...)
adding(i) == i \in reached /\ listeners[i].library # Null

\* a drop event: every listener it reaches runs its callback
drop ==
    LET calls == Cardinality({i \in DOMAIN listeners : adding(i)}) IN
    /\ Len(pending) + calls <= MaxCalls
    /\ pending' = pending \o [j \in 1..calls |-> [setter |-> "ALibraryActive"]]
    /\ wrote' = Null
    /\ dropped' = [active |-> ALibraryActive # Null, calls |-> calls]
    /\ UNCHANGED <<ALibrarySwitch, listeners>>

\* the backend's answers while drops are followed: switches of one library at most
dropAnswers(name) ==
    {e \in Envelopes(name) :
        (name = "ALibrarySwitch" /\ e.status = "ok") => Len(e.data.libraries) <= 1}

\* the rest of the application writing the hook-based store
dropStore ==
    /\ \/ init
       \/ \E k \in 1..Len(pending) :
              \E answer \in dropAnswers(pending[k].setter) : Chain(k, answer)
    /\ UNCHANGED dropVars

DropNext ==
    \/ dropEffect
    \/ \E i \in DOMAIN listeners : listening(i)
    \/ \E i \in DOMAIN listeners : registered(i)
    \/ drop
    \/ dropStore

SpecDrop ==
    /\ Idle
    /\ [][DropNext /\ Only({"hook", "drop"})]_allVars

\* C28: a file drop leads to an addMods call only if the store has an active
\* library at the moment of the drop: the last drop, when the store had none,
\* led to no call.
C28_DropWithoutLibraryIgnored ==
    (dropped # Null /\ ~dropped.active) => dropped.calls = 0

-----------------------------------------------------------------------------
(* The action layer on the mock backend (lib/mock-data.ts): every action    *)
(* waits for a setTimeout, then reads or updates mockDataStore and hands    *)
(* the result to its merge function. createLibraryAction is not followed.   *)

MockMods == {"mod-1"}
MockLibIds == <<"lib-a", "lib-b", "lib-c">>

\* a mod of a mock library: not in library.mods, or there with its is_active
ModStates == {"absent", "active", "inactive"}

\* generateMockLibrary: mods and is_dirty are drawn by faker; the libraries
\* that are not made active are drawn with their mod inactive
MockLibraries(i) ==
    [id : {MockLibIds[i]},
     mods : IF i = 1 THEN [MockMods -> ModStates] ELSE [MockMods -> {"inactive"}],
     is_dirty : BOOLEAN]

\* generateMockLibrarySwitch({ libraryCount: 3, activeIndex: 0 })
generateMockLibrarySwitch ==
    {[active |-> libs[1], libraries |-> libs] :
        libs \in {ls \in [1..3 -> UNION {MockLibraries(i) : i \in 1..3}] :
                     \A i \in 1..3 : ls[i] \in MockLibraries(i)}}

\* initialize(): the switch is generated on the first use of the store
initialize(switch) ==
    IF mockDataStore = Null
    THEN switch \in generateMockLibrarySwitch
    ELSE switch = mockDataStore

\* the mods generated for the dropped paths, one per path
generated == [MockMods -> ModStates]

\* the updater of addModsAction
addUpdater(library, newMods) ==
    [library EXCEPT
        !.mods = [m \in MockMods |-> IF newMods[m] # "absent"
                                     THEN newMods[m]
                                     ELSE library.mods[m]],
        !.is_dirty = TRUE]

\* the updater of removeModsAction
removeUpdater(library, ids) ==
    [library EXCEPT
        !.mods = [m \in MockMods |-> IF m \in ids THEN "absent" ELSE library.mods[m]],
        !.is_dirty = TRUE]

\* the updater of toggleModAction leaving is_dirty as it is
toggleUpdater_KeepsFlag(library, id, isActive) ==
    IF library.mods[id] = "absent"
    THEN library
    ELSE [library EXCEPT
            !.mods[id] = IF isActive THEN "active" ELSE "inactive"]

\* the updater of toggleModAction
toggleUpdater(library, id, isActive) ==
    IF library.mods[id] = "absent"
    THEN library
    ELSE [library EXCEPT
            !.mods[id] = IF isActive THEN "active" ELSE "inactive",
            !.is_dirty = TRUE]

\* the updater of syncModsAction
syncUpdater(library) == [library EXCEPT !.is_dirty = FALSE]

\* updateActiveLibrary(updater), given what the updater returned
updateActiveLibrary(switch, updated) ==
    [active |-> updated,
     libraries |-> [i \in DOMAIN switch.libraries |->
                       IF switch.libraries[i].id = updated.id
                       THEN updated
                       ELSE switch.libraries[i]]]

MockOps == {"fetchLibrary", "openLibrary", "addMods", "removeMods", "toggleMod", "syncMods"}

\* the merge function each mock-backed action hands its result to
mergeOf(op) ==
    CASE op = "fetchLibrary" -> "setLibrary"
      [] op = "openLibrary" -> "updateLibrarySwitchState"
      [] OTHER -> "updateLibraryState"

\* an action atom is invoked: loading and error are set, the timer starts
mockInvoke(op, ids, id, isActive) ==
    /\ Invoke(mergeOf(op))
    /\ timers' = Append(timers, [op |-> op, ids |-> ids, id |-> id, isActive |-> isActive])
    /\ mockRan' = Null
    /\ UNCHANGED mockDataStore

\* the library the mock operation leaves active
mockUpdated(timer, library, newMods) ==
    CASE timer.op = "addMods" -> addUpdater(library, newMods)
      [] timer.op = "removeMods" -> removeUpdater(library, timer.ids)
      [] timer.op = "toggleMod" -> toggleUpdater(library, timer.id, timer.isActive)
      [] timer.op = "syncMods" -> syncUpdater(library)
      [] OTHER -> library

\* the timer of call k fires: the operation runs on the store and resolves,
\* and withAsyncState merges its result
mockFire(k) ==
    \E switch \in IF mockDataStore = Null THEN generateMockLibrarySwitch ELSE {mockDataStore} :
    \E newMods \in IF timers[k].op = "addMods" THEN generated ELSE {[m \in MockMods |-> "absent"]} :
        LET updated == mockUpdated(timers[k], switch.active, newMods)
            after == updateActiveLibrary(switch, updated)
        IN  /\ initialize(switch)
            /\ mockDataStore' = after
            /\ Settle(k, Ok(IF timers[k].op = "openLibrary" THEN after ELSE updated))
            /\ timers' = RemoveAt(timers, k)
            /\ mockRan' = [op |-> timers[k].op,
                           before |-> switch.active,
                           existed |-> switch.active.mods[timers[k].id] # "absent"]

MockNext ==
    \/ \E op \in MockOps, ids \in SUBSET MockMods, id \in MockMods, isActive \in BOOLEAN :
           /\ op # "removeMods" => ids = {}
           /\ op # "toggleMod" => isActive
           /\ mockInvoke(op, ids, id, isActive)
    \/ \E k \in 1..Len(timers) : mockFire(k)

SpecMock ==
    /\ Idle
    /\ [][MockNext /\ Only({"store", "mock"})]_allVars

\* the mock operation `op` ran in the last step
Ran(op) == mockRan # Null /\ mockRan.op = op

\* C29: after addMods, removeMods or toggleMod of an existing mod ran on the
\* mock backend its active library has is_dirty = true; after syncMods it has
\* is_dirty = false and is otherwise the library it was (same mods, same
\* is_active values).
C29_DirtyFlagFollowsChanges ==
    /\ (Ran("addMods") \/ Ran("removeMods") \/ (Ran("toggleMod") /\ mockRan.existed))
           => mockDataStore.active.is_dirty
    /\ Ran("syncMods")
           => /\ ~mockDataStore.active.is_dirty
              /\ mockDataStore.active = [mockRan.before EXCEPT !.is_dirty = FALSE]
              /\ libraryAtom = mockDataStore.active

\* a sync of a library that a toggle had made dirty, its mod active
C29_Witness ==
    /\ Ran("syncMods")
    /\ mockRan.before.is_dirty
    /\ mockRan.before.mods["mod-1"] = "active"
    /\ settled.value.mods["mod-1"] = "active"

-----------------------------------------------------------------------------
(* retry (lib/fp-utils.ts): a loop over attempt = 1..maxAttempts that       *)
(* awaits fn(), returns what it resolves with, and on a failure keeps the   *)
(* error and awaits delay(waitTime) when another attempt follows.           *)

MaxAttempts == 3

\* what fn resolves with, what it rejects with
Values == {"v1", "v2"}
Errors == {"e1", "e2"}

\* the catch block awaiting the delay after every failure
waiting_AfterEveryFailure(attempt, maxAttempts) == attempt <= maxAttempts

\* if (attempt < maxAttempts)
waiting(attempt, maxAttempts) == attempt < maxAttempts

\* backoff ? delayMs * Math.pow(2, attempt - 1) : delayMs
waitTime(backoff, delayMs, attempt) ==
    IF backoff THEN delayMs * 2 ^ (attempt - 1) ELSE delayMs

\* retry(fn, { maxAttempts, delayMs, backoff }) is called: the locals are set
\* and the loop is entered
retry(maxAttempts, delayMs, backoff) ==
    /\ retrying = Null
    /\ retrying' = [maxAttempts |-> maxAttempts,
                    delayMs |-> delayMs,
                    backoff |-> backoff,
                    attempt |-> 1,
                    lastError |-> "undefined",
                    pc |-> "for",
                    calls |-> <<>>,
                    waits |-> <<>>,
                    result |-> "none"]

\* for (...; attempt <= maxAttempts; ...): fn() is invoked, or the loop is
\* left and lastError is thrown
forLoop ==
    /\ retrying # Null
    /\ retrying.pc = "for"
    /\ retrying' =
         IF retrying.attempt <= retrying.maxAttempts
         THEN [retrying EXCEPT !.pc = "await fn",
                               !.calls = Append(@, "pending")]
         ELSE [retrying EXCEPT !.pc = "rejected",
                               !.result = retrying.lastError]

\* return await fn(): fn resolved
fnResolves(value) ==
    /\ retrying # Null
    /\ retrying.pc = "await fn"
    /\ retrying' = [retrying EXCEPT !.pc = "resolved",
                                    !.calls[Len(retrying.calls)] = value,
                                    !.result = value]

\* catch (error): fn rejected (or threw)
fnRejects(error) ==
    /\ retrying # Null
    /\ retrying.pc = "await fn"
    /\ retrying' =
         IF waiting(retrying.attempt, retrying.maxAttempts)
         THEN [retrying EXCEPT
                 !.lastError = error,
                 !.calls[Len(retrying.calls)] = error,
                 !.waits = Append(@, waitTime(retrying.backoff, retrying.delayMs,
                                              retrying.attempt)),
                 !.pc = "await delay"]
         ELSE [retrying EXCEPT
                 !.lastError = error,
                 !.calls[Len(retrying.calls)] = error,
                 !.attempt = @ + 1,
                 !.pc = "for"]

\* the timer of delay(waitTime) fires and the loop goes on
delay ==
    /\ retrying # Null
    /\ retrying.pc = "await delay"
    /\ retrying' = [retrying EXCEPT !.attempt = @ + 1, !.pc = "for"]

\* the steps retry takes by itself
retrySteps == forLoop \/ delay

RetryNext ==
    \/ \E maxAttempts \in 0..MaxAttempts, delayMs \in {0, 1000}, backoff \in BOOLEAN :
           retry(maxAttempts, delayMs, backoff)
    \/ forLoop
    \/ \E value \in Values : fnResolves(value)
    \/ \E error \in Errors : fnRejects(error)
    \/ delay

\* the loop and the timers of delay always get to run; fn may never settle
SpecRetry ==
    /\ Idle
    /\ [][RetryNext /\ Only({"retry"})]_allVars
    /\ WF_allVars(retrySteps /\ Only({"retry"}))

\* the invocations of fn that failed
Failed == {i \in DOMAIN retrying.calls : retrying.calls[i] \in Errors}

\* retry has settled
Returned == retrying.pc \in {"resolved", "rejected"}

\* the safe part of C30
RetryBounded ==
    retrying # Null =>
        LET n == Len(retrying.calls) IN
        /\ n <= retrying.maxAttempts
        /\ Len(retrying.waits) <= Cardinality(Failed)
        /\ retrying.pc = "resolved" =>
               /\ retrying.result = retrying.calls[n]
               /\ retrying.result \in Values
               /\ Failed = 1..(n - 1)
               /\ Len(retrying.waits) = n - 1
        /\ retrying.pc = "rejected" =>
               /\ n = retrying.maxAttempts
               /\ Failed = 1..n
               /\ n > 0 => retrying.result = retrying.calls[n]
               /\ n > 0 => Len(retrying.waits) = n - 1
               /\ n = 0 => retrying.waits = <<>>

\* fn has settled maxAttempts times
Exhausted ==
    /\ retrying # Null
    /\ Len(retrying.calls) = retrying.maxAttempts
    /\ retrying.pc # "await fn"

\* C30: retry invokes fn at most maxAttempts times; it returns what the first
\* successful invocation resolved with and invokes fn no more; when all
\* maxAttempts invocations fail it rejects with the error of the last one; it
\* awaits a delay after every failure but the maxAttempts-th; and once fn has
\* settled maxAttempts times it settles.
C30_RetryBoundedAndSettles ==
    /\ []RetryBounded
    /\ Exhausted ~> (retrying # Null /\ Returned)

\* three attempts that all failed: rejected with the last error after two delays
C30_Witness ==
    /\ retrying # Null
    /\ retrying.pc = "rejected"
    /\ retrying.maxAttempts = 3
    /\ retrying.calls = <<"e1", "e1", "e2">>
    /\ retrying.result = "e2"
    /\ Len(retrying.waits) = 2

====
